---- MODULE Spec2Model ----
(***************************************************************************)
(* Model of the pallet-label server (src/index.js, second variant starting *)
(* at line 376, with the Postgres completion log of src/ausbuchLogStore.js,*)
(* and src/index-av.js with the file-backed completion log), of the router *)
(* of src/unnamed/part_001 (av/avRoutes.js), and of the pure helpers       *)
(* sortTasksByPriorityAndName, normalizeProject and normalizeDrawing.      *)
(*                                                                         *)
(* A request is a record in the sequence reqs; it advances one step per    *)
(* await of its handler (a remote call or a log query), so that requests   *)
(* interleave exactly where the event loop lets them.                      *)
(***************************************************************************)
EXTENDS Integers, Sequences, FiniteSets, TLC

VARIABLES
  variant,    \* "pg": src/index.js + ausbuchLogStore.js; "file": src/index-av.js
  reqs,       \* the requests received so far, in order of arrival
  remote,     \* the tasks of the remote task service, in the order it lists them
  log,        \* the completion log: task id -> completed_at (table or JSON file)
  clock,      \* the time, as the number of the next timestamp
  avLists,    \* the snapshot store of av/avRoutes.js
  boots,      \* the number of times the server process has been started
  sortIn,     \* input of the list sorter (sorter specification)
  sortOut,    \* its output
  sortDone,
  raw,        \* input of normalizeProject or normalizeDrawing (normalizer specifications)
  normOut,    \* its output
  normDone

vars == <<variant, reqs, remote, log, clock, avLists, boots,
          sortIn, sortOut, sortDone, raw, normOut, normDone>>

serverVars == <<variant, reqs, remote, log, clock, avLists, boots>>
sortVars == <<sortIn, sortOut, sortDone>>
normVars == <<raw, normOut, normDone>>

----------------------------------------------------------------------------
(* Bounds                                                                  *)

MaxReqs == 2        \* requests received in one behaviour
MaxSortLen == 3     \* length of the lists given to the sorter
MaxRawLen == 3      \* length of the enumerated inputs of normalizeProject
MaxDrawLen == 4     \* length of the enumerated inputs of normalizeDrawing
MaxBoots == 2       \* starts of the server process in one behaviour
MaxJobs == 1        \* label forms sent in one behaviour

----------------------------------------------------------------------------
(* Remote task service                                                     *)

NoLabel == "none"   \* labelName = null

\* The remote project: three pallets of commission K100 and one task
\* without a label, in the order the service lists them.
InitialTasks ==
  << [id |-> "t1", content |-> "B", priority |-> 1, labels |-> <<"K100">>, closed |-> FALSE],
     [id |-> "t2", content |-> "A", priority |-> 3, labels |-> <<"K100">>, closed |-> FALSE],
     [id |-> "t3", content |-> "a", priority |-> 1, labels |-> <<"K100">>, closed |-> FALSE],
     [id |-> "t4", content |-> "Z", priority |-> 4, labels |-> <<>>,       closed |-> FALSE] >>

TaskIds == {InitialTasks[i].id : i \in 1..Len(InitialTasks)}

\* The task ids requests are made for.
ScanTaskIds == {"t1", "t4"}

TaskIndex(tasks, id) == CHOOSE i \in 1..Len(tasks) : tasks[i].id = id

InSeq(x, s) == \E i \in 1..Len(s) : s[i] = x

\* a filter that also matches completed tasks
IsWithLabel(t, labelName) == InSeq(labelName, t.labels)

\* the filter @label of GET /tasks matches the active tasks with the label
IsOpenWithLabel(t, labelName) == ~t.closed /\ InSeq(labelName, t.labels)

\* GET /tasks?filter=@label : the open tasks carrying the label
listOpenTasksByLabel(tasks, labelName) ==
  SelectSeq(tasks, LAMBDA t : IsOpenWithLabel(t, labelName))

\* POST /tasks/{id}/close
closeTask(tasks, id) ==
  [i \in 1..Len(tasks) |-> IF tasks[i].id = id THEN [tasks[i] EXCEPT !.closed = TRUE]
                                               ELSE tasks[i]]

\* GET /tasks/{id}, then labels[0] when the task has labels
getTaskLabel(tasks, id) ==
  LET t == tasks[TaskIndex(tasks, id)]
  IN IF Len(t.labels) > 0 THEN t.labels[1] ELSE NoLabel

----------------------------------------------------------------------------
(* List sorter                                                             *)

\* Rank of a content string under the German collation of localeCompare:
\* "a" < "A" < "B" < "Z" (lower case first, then by letter).
Contents == {"a", "A", "B", "Z"}
CollRank(c) == CASE c = "a" -> 1 [] c = "A" -> 2 [] c = "B" -> 3 [] c = "Z" -> 4

localeCompare(x, y) ==
  IF CollRank(x) < CollRank(y) THEN -1 ELSE IF CollRank(x) > CollRank(y) THEN 1 ELSE 0

\* the comparator with the priorities the wrong way round
CompareTasksAscending(a, b) ==
  IF a.priority # b.priority THEN a.priority - b.priority
  ELSE localeCompare(a.content, b.content)

\* a comparator that never answers 0: equal contents count as "after"
CompareTasksNoTie(a, b) ==
  IF a.priority # b.priority THEN b.priority - a.priority
  ELSE IF localeCompare(a.content, b.content) < 0 THEN -1 ELSE 1

\* the comparator of sortTasksByPriorityAndName
CompareTasks(a, b) ==
  IF a.priority # b.priority THEN b.priority - a.priority
  ELSE localeCompare(a.content, b.content)

RECURSIVE InsertTask(_, _)
\* stable insertion: x goes behind every element that does not sort after it
InsertTask(sorted, x) ==
  IF sorted = <<>> THEN <<x>>
  ELSE IF CompareTasks(Head(sorted), x) <= 0
       THEN <<Head(sorted)>> \o InsertTask(Tail(sorted), x)
       ELSE <<x>> \o sorted

RECURSIVE SortFrom(_, _)
SortFrom(sorted, rest) ==
  IF rest = <<>> THEN sorted ELSE SortFrom(InsertTask(sorted, Head(rest)), Tail(rest))

\* [...tasks].sort(comparator): Array.prototype.sort is stable
sortTasksByPriorityAndName(tasks) == SortFrom(<<>>, tasks)

----------------------------------------------------------------------------
(* Project normaliser                                                      *)

\* Strings are sequences of characters.
LowerLetters == {"b", "c", "e", "f", "h", "k", "l", "n", "o", "r", "s", "t", "v"}
UpperLetters == {"B", "C", "E", "F", "H", "K", "L", "N", "O", "R", "S", "T", "V", "X"}
DigitChars == {"0", "1", "2", "4", "5", "7"}

\* String.prototype.toUpperCase, character by character
UpperChar(c) ==
  CASE c = "b" -> "B" [] c = "e" -> "E" [] c = "f" -> "F"
    [] c = "k" -> "K" [] c = "l" -> "L" [] c = "r" -> "R"
    [] c = "c" -> "C" [] c = "h" -> "H" [] c = "n" -> "N"
    [] c = "o" -> "O" [] c = "s" -> "S" [] c = "t" -> "T"
    [] c = "v" -> "V" [] c = "ü" -> "Ü"
    [] OTHER -> c

toUpperCase(str) == [k \in 1..Len(str) |-> UpperChar(str[k])]

IsLetter(c) == c \in UpperLetters
IsDigit(c) == c \in DigitChars
IsAlnum(c) == IsLetter(c) \/ IsDigit(c)

\* (letters + 'XXXX').slice(0, 4) without the padding
partLettersNoPad(letters) == SubSeq(letters, 1, IF Len(letters) < 4 THEN Len(letters) ELSE 4)

\* (letters + 'XXXX').slice(0, 4)
partLetters(letters) == SubSeq(letters \o <<"X", "X", "X", "X">>, 1, 4)

\* (digits + '0000').slice(0, 4)
partDigits(digits) == SubSeq(digits \o <<"0", "0", "0", "0">>, 1, 4)

normalizeProject(str) ==
  IF str = <<>> THEN <<>>                       \* if (!raw) return ''
  ELSE LET s0 == SelectSeq(toUpperCase(str), IsAlnum)   \* replace(/[^A-Z0-9K]/g, '')
           hasK == s0 # <<>> /\ s0[Len(s0)] = "K"       \* s.endsWith('K')
           s == IF hasK THEN SubSeq(s0, 1, Len(s0) - 1) ELSE s0
           letters == SelectSeq(s, IsLetter)
           digits == SelectSeq(s, IsDigit)
           result == partLetters(letters) \o partDigits(digits)
       IN IF hasK THEN result \o <<"K">> ELSE result

----------------------------------------------------------------------------
(* Drawing normaliser                                                      *)

\* String.prototype.toLowerCase, character by character
LowerChar(c) ==
  CASE c = "B" -> "b" [] c = "E" -> "e" [] c = "F" -> "f"
    [] c = "K" -> "k" [] c = "L" -> "l" [] c = "R" -> "r"
    [] c = "C" -> "c" [] c = "H" -> "h" [] c = "N" -> "n"
    [] c = "O" -> "o" [] c = "S" -> "s" [] c = "T" -> "t"
    [] c = "V" -> "v" [] c = "X" -> "x" [] c = "Ü" -> "ü"
    [] OTHER -> c

toLowerCase(str) == [k \in 1..Len(str) |-> LowerChar(str[k])]

IsSpace(c) == c = " "       \* \s
NotSpace(c) == ~IsSpace(c)

\* String.prototype.trim
trim(str) ==
  IF \A k \in 1..Len(str) : IsSpace(str[k]) THEN <<>>
  ELSE LET a == CHOOSE k \in 1..Len(str) :
                  NotSpace(str[k]) /\ \A m \in 1..(k - 1) : IsSpace(str[m])
           b == CHOOSE k \in 1..Len(str) :
                  NotSpace(str[k]) /\ \A m \in (k + 1)..Len(str) : IsSpace(str[m])
       IN SubSeq(str, a, b)

\* the first position from p on whose character is not of the class, or Len + 1
SkipSpaces(str, p) ==
  CHOOSE q \in p..(Len(str) + 1) :
    /\ \A m \in p..(q - 1) : IsSpace(str[m])
    /\ q <= Len(str) => NotSpace(str[q])

SkipDigits(str, p) ==
  CHOOSE q \in p..(Len(str) + 1) :
    /\ \A m \in p..(q - 1) : IsDigit(str[m])
    /\ q <= Len(str) => ~IsDigit(str[q])

SkipWord(str, p) ==
  CHOOSE q \in p..(Len(str) + 1) :
    /\ \A m \in p..(q - 1) : NotSpace(str[m])
    /\ q <= Len(str) => IsSpace(str[q])

RECURSIVE split(_)
\* str.split(/\s+/) of a trimmed string; '' gives [''], which is mapped to ''
\* and joined to '' like the empty list
split(str) ==
  IF str = <<>> THEN <<>>
  ELSE LET e == SkipWord(str, 1)
       IN <<SubSeq(str, 1, e - 1)>> \o split(SubSeq(str, SkipSpaces(str, e), Len(str)))

RECURSIVE join(_, _)
\* Array.prototype.join
join(parts, sep) ==
  IF parts = <<>> THEN <<>>
  ELSE IF Len(parts) = 1 THEN parts[1]
  ELSE parts[1] \o sep \o join(Tail(parts), sep)

\* w.charAt(0).toUpperCase() + w.slice(1).toLowerCase()
capitalize(w) == IF w = <<>> THEN <<>> ELSE <<UpperChar(w[1])>> \o toLowerCase(Tail(w))

toTitleCase(str) ==
  LET words == split(trim(str))
  IN join([k \in 1..Len(words) |-> capitalize(words[k])], <<" ">>)

\* the end of the match of /[Bb][Ll]\s*\d+/ that starts at position p, or 0
matchEnd(str, p) ==
  IF /\ p + 1 <= Len(str)
     /\ str[p] \in {"b", "B"}
     /\ str[p + 1] \in {"l", "L"}
  THEN LET q == SkipSpaces(str, p + 2)
       IN IF q <= Len(str) /\ IsDigit(str[q]) THEN SkipDigits(str, q) - 1 ELSE 0
  ELSE 0

TextToken(value) == IF value = <<>> THEN <<>> ELSE <<[type |-> "text", value |-> value]>>

RECURSIVE scanTokens(_, _, _)
\* the while loop over re.exec(input) and the tail after it: lastIndex is
\* the position after the last match, p the position the search has reached
scanTokens(input, lastIndex, p) ==
  IF p > Len(input) THEN TextToken(trim(SubSeq(input, lastIndex, Len(input))))
  ELSE LET e == matchEnd(input, p)
       IN IF e = 0 THEN scanTokens(input, lastIndex, p + 1)
          ELSE TextToken(trim(SubSeq(input, lastIndex, p - 1)))
               \o <<[type |-> "bl", value |-> SubSeq(input, p, e)]>>
               \o scanTokens(input, e + 1, e + 1)

\* num.padStart(2, '0') without the slice(-2)
twoDigitsNoSlice(num) == IF Len(num) < 2 THEN <<"0">> \o num ELSE num

\* num.padStart(2, '0').slice(-2)
twoDigits(num) ==
  LET padded == IF Len(num) < 2 THEN <<"0">> \o num ELSE num
  IN SubSeq(padded, Len(padded) - 1, Len(padded))

\* the normalisation of a token of type 'bl'
blCode(value) ==
  LET s == SelectSeq(toUpperCase(value), NotSpace)           \* replace(/\s+/g, '')
      digits == SelectSeq(SubSeq(s, 3, Len(s)), IsDigit)     \* s.slice(2).replace(/\D/g, '')
      num == IF digits = <<>> THEN <<"0">> ELSE digits
  IN <<"B", "L">> \o twoDigits(num)

resultPart(t) == IF t.type = "bl" THEN blCode(t.value) ELSE toTitleCase(t.value)

normalizeDrawing(str) ==
  IF str = <<>> THEN <<>>                       \* if (!raw) return ''
  ELSE LET input == trim(str)
           tokens == scanTokens(input, 1, 1)
       IN IF tokens = <<>> THEN toTitleCase(input)
          ELSE join([k \in 1..Len(tokens) |-> resultPart(tokens[k])], <<",", " ">>)

----------------------------------------------------------------------------
(* Signature verifier                                                      *)

SIGNING_SECRET == "secret"
NoSig == <<>>       \* no sig query parameter

\* HMAC-SHA256 of String(taskId) under the server secret, as an opaque term
signTaskId(taskId) == <<"hmac-sha256", SIGNING_SECRET, taskId>>

\* a digest computed without the server secret
ForgedSig(taskId) == <<"hmac-sha256", "guess", taskId>>

\* the link of the QR code printed on the label of a task:
\* /scan/{taskId}?sig={signTaskId(taskId)}
QrUrl(taskId) == [path |-> "scan", taskId |-> taskId, sig |-> signTaskId(taskId)]

\* the check without the comparison: only a missing signature is rejected
SigRejectedOnlyMissing(taskId, sig) == sig = NoSig

\* a signature that is good until the task has been completed
SigRejectedOnceLogged(taskId, sig) ==
  sig = NoSig \/ sig # signTaskId(taskId) \/ taskId \in DOMAIN log

\* !sig || sig !== expected
SigRejected(taskId, sig) == sig = NoSig \/ sig # signTaskId(taskId)

----------------------------------------------------------------------------
(* Completion log                                                          *)

Absent == 0         \* getCompletedAt: null, "never completed"

\* getCompletedAt / getCompletedFromLog
getCompletedAt(store, taskId) == IF taskId \in DOMAIN store THEN store[taskId] ELSE Absent

\* a set that stores the new record without the records read before
setCompletedAlone(store, taskId, ts) == [k \in {taskId} |-> ts]

\* setCompleted: insert ... on conflict (task_id) do update set completed_at =
\* excluded.completed_at;  setCompletedInLog: logObj[String(taskId)] = iso
setCompleted(store, taskId, ts) ==
  [k \in DOMAIN store \cup {taskId} |-> IF k = taskId THEN ts ELSE store[k]]

----------------------------------------------------------------------------
(* Requests                                                                *)

ADMIN_USER == "admin"
ADMIN_PASS == "pass"

NoAuth == [scheme |-> "", user |-> "", pass |-> ""]             \* no Authorization header
GoodAuth == [scheme |-> "Basic", user |-> ADMIN_USER, pass |-> ADMIN_PASS]
BadAuth == [scheme |-> "Basic", user |-> ADMIN_USER, pass |-> "wrong"]
AuthHeaders == {NoAuth, GoodAuth, BadAuth}

ScanRoutes == {"GET /scan", "POST /scan", "GET /complete"}
AvRouterRoutes == {"GET /api/av/labels", "POST /api/av/create", "GET /api/av/list"}
PageRoutes == {"GET /", "GET /av"}
Routes == ScanRoutes \cup AvRouterRoutes \cup PageRoutes \cup {"GET /health"}

\* first segment of req.path
PathHead(route) ==
  CASE route \in {"GET /scan", "POST /scan"} -> "scan"
    [] route = "GET /complete" -> "complete"
    [] route = "GET /health" -> "health"
    [] route \in AvRouterRoutes -> "api"
    [] route = "GET /av" -> "av"
    [] OTHER -> ""

NewRequest(route, taskId, sig, answer, auth, label, id) ==
  [route |-> route, taskId |-> taskId, sig |-> sig, answer |-> answer, auth |-> auth,
   label |-> label, id |-> id,
   pc |-> "new", status |-> 0, outcome |-> "none",
   labelName |-> NoLabel, remaining |-> <<>>, shown |-> Absent,
   \* history of the request, for the properties:
   calls |-> <<>>,          \* the remote calls and log operations issued, in order
   closed |-> "no",         \* the close of the task: "no" (not tried), "ok", "failed"
   wrote |-> Absent,        \* the timestamp the request wrote to the log
   listOk |-> FALSE,        \* the list query was answered
   getTaskFailed |-> FALSE, \* the query of the task was rejected
   remoteThen |-> <<>>,     \* the remote tasks when the query of the tasks was made
                            \* (load-list router: when the request arrived)
   found |-> Absent,        \* the log record of the task when the request arrived
   boot |-> 0,              \* the start of the process that received the request
   readFailed |-> FALSE,    \* the log file could not be read for the request
   snapshot |-> [id |-> 0], \* the snapshot the request stored or returned
   count |-> 0,             \* the count the request computed for its answer
   \* the form fields of POST /make-labels and the progress of its loop:
   rawProject |-> <<>>, rawDrawing |-> <<>>, rawCount |-> <<>>,
   project |-> <<>>, drawing |-> <<>>,   \* the normalised fields
   i |-> 0,                 \* the loop variable
   pages |-> 0,             \* the pages added to the PDF document
   made |-> <<>>,           \* the remote tasks the request created, in order
   headersSent |-> FALSE,   \* res.headersSent
   failed |-> "none",       \* the call whose failure reached a catch block of the route
   before |-> {}]           \* the requests that had been answered when it arrived

Respond(r, status, outcome) == [r EXCEPT !.pc = "done", !.status = status, !.outcome = outcome]

Called(r, name) == [r EXCEPT !.calls = Append(@, name)]

NoAnswer == ""      \* the body has no answer field

\* every answer but an explicit no counts as a confirmation
ConfirmedUnlessNo(answer) == answer # "no"

\* answer === 'yes'
Confirmed(answer) == answer = "yes"

\* GET /scan goes on to the close like GET /complete
OnLogAnswerScanCloses(r, at) ==
  IF at # Absent THEN Respond([r EXCEPT !.shown = at], 200, "ALREADY_DONE")
  ELSE [r EXCEPT !.pc = "closeTask"]

\* what GET /scan and GET /complete do with the answer of the log: the
\* "already done" page, the prompt (GET /scan), or on to the close
\* (index.js 558-591, 639-700; index-av.js 220-251, 297-356)
OnLogAnswer(r, at) ==
  IF at # Absent THEN Respond([r EXCEPT !.shown = at], 200, "ALREADY_DONE")
  ELSE IF r.route = "GET /scan" THEN Respond(r, 200, "PROMPT")
  ELSE [r EXCEPT !.pc = "closeTask"]

\* the handler of a /scan or /complete route up to its first await
\* (index.js 548-557, 627-638, 706-720; index-av.js 210-219, 285-296, 362-376)
ScanHandler(r, v, store) ==
  IF SigRejected(r.taskId, r.sig) THEN Respond(r, 403, "REJECTED")
  ELSE IF r.route = "POST /scan"
       THEN IF Confirmed(r.answer) THEN [r EXCEPT !.pc = "getTask"]
            ELSE Respond(r, 200, "DECLINED")
       ELSE IF v = "pg" THEN [r EXCEPT !.pc = "getCompletedAt"]
            ELSE \* getCompletedFromLog is synchronous
                 OnLogAnswer(Called(r, "getCompletedAt"), getCompletedAt(store, r.taskId))

NoList == [id |-> 0]       \* avLists.get(id) of an id without a snapshot: undefined

\* avLists.get(id)
avListsGet(lists, id) == IF id \in DOMAIN lists THEN lists[id] ELSE NoList

\* avLists.set(id, snapshot)
avListsSet(lists, id, snapshot) ==
  [k \in DOMAIN lists \cup {id} |-> IF k = id THEN snapshot ELSE lists[k]]

\* a handler that answers 200 with whatever the store returns
ListHandlerNoCheck(r, lists) ==
  Respond([r EXCEPT !.snapshot = avListsGet(lists, r.id)], 200, "LIST")

\* router.get("/api/av/list/:id")
ListHandler(r, lists) ==
  LET list == avListsGet(lists, r.id)
  IN IF list = NoList THEN Respond(r, 404, "NOT_FOUND")
     ELSE Respond([r EXCEPT !.snapshot = list], 200, "LIST")

\* the handler of a route of av/avRoutes.js up to its first await
AvHandler(r, lists) ==
  CASE r.route = "GET /api/av/labels" -> [r EXCEPT !.pc = "todoistGet"]
    [] r.route = "POST /api/av/create" ->
         IF r.label = "" THEN Respond(r, 400, "BAD_REQUEST")
         ELSE [r EXCEPT !.pc = "todoistGet"]
    [] r.route = "GET /api/av/list" -> ListHandler(r, lists)

\* the value of parseInt for a string without a leading integer
NaN == [finite |-> FALSE, value |-> 0]

DigitValue(c) ==
  CASE c = "0" -> 0 [] c = "1" -> 1 [] c = "2" -> 2
    [] c = "4" -> 4 [] c = "5" -> 5 [] c = "7" -> 7

RECURSIVE DecimalValue(_)
DecimalValue(digits) ==
  IF digits = <<>> THEN 0
  ELSE 10 * DecimalValue(SubSeq(digits, 1, Len(digits) - 1)) + DigitValue(digits[Len(digits)])

\* parseInt(str, 10): leading white space is skipped, a sign is read, then
\* the digits up to the first other character; no digit there: NaN
parseInt(str) ==
  LET p == SkipSpaces(str, 1)
      signed == p <= Len(str) /\ str[p] \in {"-", "+"}
      q == IF signed THEN p + 1 ELSE p
      e == SkipDigits(str, q)
      n == DecimalValue(SubSeq(str, q, e - 1))
  IN IF e = q THEN NaN
     ELSE [finite |-> TRUE, value |-> IF signed /\ str[p] = "-" THEN 0 - n ELSE n]

MAX_LABELS == 50

Max(a, b) == IF a >= b THEN a ELSE b
Min(a, b) == IF a <= b THEN a ELSE b

\* count = Math.max(1, Math.min(50, count)) of index-av.js 690; the handler
\* of index.js 1057-1110 has no such line and loops with the parsed count
effectiveCount(v, count) == IF v = "file" THEN Max(1, Min(MAX_LABELS, count)) ELSE count

\* a sequence of characters as a string
RECURSIVE Str(_)
Str(chars) == IF chars = <<>> THEN "" ELSE chars[1] \o Str(Tail(chars))

\* `${project} – ${drawing} – Palette ${i}/${count}`, the dashes written "-"
taskTitle(project, drawing, i, count) ==
  Str(project) \o " - " \o Str(drawing) \o " - Palette " \o ToString(i) \o "/" \o ToString(count)

\* the head of the loop of POST /make-labels: i <= count adds a page and goes
\* on to the await of createTodoistTask; otherwise doc.end() finishes the PDF
\* (index.js 1110-1111, 1188-1189, 1231)
LoopHead(r) ==
  IF r.i <= r.count THEN [r EXCEPT !.pages = @ + 1, !.pc = "createTodoistTask"]
  ELSE Respond(r, 200, "PDF")

\* POST /make-labels up to its first await (index.js 1057-1110; index-av.js 674-724)
LabelsHandler(r, v) ==
  LET project == normalizeProject(trim(r.rawProject))
      drawing == normalizeDrawing(trim(r.rawDrawing))
      count == parseInt(r.rawCount)
  IN IF project = <<>> \/ drawing = <<>> \/ ~count.finite
     THEN Respond(r, 400, "BAD_REQUEST")
     ELSE LoopHead([r EXCEPT !.project = project, !.drawing = drawing,
                             !.count = effectiveCount(v, count.value), !.i = 1])

\* the catch block of POST /make-labels. index.js 1232-1239 answers 500 while
\* no header is sent and ends the response otherwise; index-av.js 846-849
\* calls res.status(500).send(...) in either case, which throws once the
\* headers are sent, so that the promise of the handler is rejected
OnLabelsError(r, v) ==
  IF ~r.headersSent THEN Respond(r, 500, "ERROR")
  ELSE IF v = "pg" THEN Respond(r, 200, "TRUNCATED")
  ELSE [r EXCEPT !.pc = "escaped"]

\* the routes registered on app after the middleware
AppHandler(r, v, store) ==
  CASE r.route \in ScanRoutes -> ScanHandler(r, v, store)
    [] r.route = "POST /make-labels" -> LabelsHandler(r, v)
    [] r.route = "GET /health" -> Respond(r, 200, "OK")
    [] r.route \in PageRoutes -> Respond(r, 200, "PAGE")
    [] OTHER -> Respond(r, 404, "NO_ROUTE")

\* basicAuth lets the request through (next()) or answers 401
basicAuthPasses(r) ==
  \/ PathHead(r.route) \in {"health", "scan", "complete"}
  \/ /\ r.auth.scheme = "Basic"
     /\ r.auth.user = ADMIN_USER
     /\ r.auth.pass = ADMIN_PASS

\* the order of the app.use calls: index.js 419 and 460, index-av.js 43 and 122
MiddlewareChain == <<"avRoutes", "basicAuth", "routes">>

RECURSIVE RunChain(_, _, _, _, _)
RunChain(i, r, v, store, lists) ==
  IF i > Len(MiddlewareChain) THEN Respond(r, 404, "NO_ROUTE")
  ELSE CASE MiddlewareChain[i] = "avRoutes" ->
              IF r.route \in AvRouterRoutes THEN AvHandler(r, lists)
              ELSE RunChain(i + 1, r, v, store, lists)
         [] MiddlewareChain[i] = "basicAuth" ->
              IF basicAuthPasses(r) THEN RunChain(i + 1, r, v, store, lists)
              ELSE Respond(r, 401, "UNAUTHORIZED")
         [] MiddlewareChain[i] = "routes" -> AppHandler(r, v, store)

Dispatch(r, v, store, lists) == RunChain(1, r, v, store, lists)

Answered == {i \in 1..Len(reqs) : reqs[i].pc = "done"}

\* the inputs of a request, by route
\* the signatures a client supplies for task t: none, the one of the QR code,
\* one computed without the secret, and the QR signature of another task
SuppliedSigs(t) == {NoSig, signTaskId(t), ForgedSig(t), signTaskId("t2")}

\* the requests to the QR routes
ScanInputs ==
  UNION {{NewRequest("POST /scan", t, sig, answer, NoAuth, "", 0) :
            sig \in SuppliedSigs(t), answer \in {"yes", "no", NoAnswer}} : t \in ScanTaskIds}
  \cup
  UNION {{NewRequest(route, t, sig, "", NoAuth, "", 0) :
            route \in {"GET /scan", "GET /complete"}, sig \in SuppliedSigs(t)} :
         t \in ScanTaskIds}

\* the requests to the load-list router and to the pages, with and without
\* credentials, and one scan that closes a pallet of the commission
AvInputs ==
  {NewRequest("POST /api/av/create", "", NoSig, "", auth, label, 0) :
     auth \in AuthHeaders, label \in {"", "K100"}}
  \cup
  {NewRequest("GET /api/av/list", "", NoSig, "", auth, "", id) :
     auth \in AuthHeaders, id \in 1..MaxReqs}
  \cup
  {NewRequest(route, "", NoSig, "", auth, "", 0) :
     route \in {"GET /api/av/labels", "GET /", "GET /av", "GET /health"}, auth \in AuthHeaders}
  \cup
  {NewRequest("POST /scan", "t1", signTaskId("t1"), "yes", NoAuth, "", 0)}

----------------------------------------------------------------------------
(* Actions of the server                                                   *)

\* a request arrives and runs up to its first await
Receive(inputs) ==
  /\ Len(reqs) < MaxReqs
  /\ \E r \in inputs :
       reqs' = Append(reqs, Dispatch([r EXCEPT !.before = Answered,
                                               !.found = getCompletedAt(log, r.taskId),
                                               !.remoteThen =
                                                  IF r.route \in AvRouterRoutes THEN remote ELSE <<>>,
                                               !.boot = boots],
                                     variant, log, avLists))
  /\ UNCHANGED <<boots, variant, remote, log, clock, avLists>>

At(i, pc) == i \in 1..Len(reqs) /\ reqs[i].pc = pc

\* await getCompletedAt(taskId) of GET /scan and GET /complete (index.js 557, 638)
GetCompletedAtOk(i) ==
  /\ At(i, "getCompletedAt")
  /\ reqs' = [reqs EXCEPT ![i] =
       OnLogAnswer(Called(@, "getCompletedAt"), getCompletedAt(log, @.taskId))]
  /\ UNCHANGED <<boots, variant, remote, log, clock, avLists>>

\* the query is rejected: the catch block of the route answers 500
GetCompletedAtFails(i) ==
  /\ At(i, "getCompletedAt")
  /\ reqs' = [reqs EXCEPT ![i] = Respond(Called(@, "getCompletedAt"), 500, "ERROR")]
  /\ UNCHANGED <<boots, variant, remote, log, clock, avLists>>

\* await getTask(taskId) of POST /scan (index.js 718-727)
GetTaskOk(i) ==
  /\ At(i, "getTask")
  /\ LET r == Called(reqs[i], "getTask")
     IN reqs' = [reqs EXCEPT ![i] =
          [r EXCEPT !.labelName = getTaskLabel(remote, r.taskId), !.pc = "closeTask"]]
  /\ UNCHANGED <<boots, variant, remote, log, clock, avLists>>

\* the failure of getTask reaches the catch block of the route
OnGetTaskErrorAnswers(r) == Respond(r, 500, "ERROR")

\* getTask throws: the catch of POST /scan logs a warning, labelName stays
\* null and the handler goes on to the close (index.js 724-727)
OnGetTaskError(r) == [r EXCEPT !.pc = "closeTask"]

GetTaskFails(i) ==
  /\ At(i, "getTask")
  /\ LET r == [Called(reqs[i], "getTask") EXCEPT !.getTaskFailed = TRUE]
     IN reqs' = [reqs EXCEPT ![i] = OnGetTaskError(r)]
  /\ UNCHANGED <<boots, variant, remote, log, clock, avLists>>

\* await closeTask(taskId) (index.js 591, 731; index-av.js 251, 387)
CloseTaskOk(i) ==
  /\ At(i, "closeTask")
  /\ remote' = closeTask(remote, reqs[i].taskId)
  /\ LET r == [Called(reqs[i], "closeTask") EXCEPT !.closed = "ok"]
     IN reqs' = [reqs EXCEPT ![i] =
          [r EXCEPT !.pc = IF r.route = "GET /complete" /\ variant = "file"
                           THEN "closeTask2" ELSE "setCompleted"]]
  /\ UNCHANGED <<boots, variant, log, clock, avLists>>

\* the error is swallowed like the one of getTask and the handler goes on
OnCloseErrorGoOn(r) == [r EXCEPT !.pc = "setCompleted"]

\* closeTask throws: POST /scan catches it and answers 502 (index.js 732-756);
\* GET /complete leaves it to the catch block of the route (index.js 622-625)
OnCloseError(r) ==
  IF r.route = "POST /scan" THEN Respond(r, 502, "CLOSE_FAILED")
  ELSE Respond(r, 500, "ERROR")

CloseTaskFails(i) ==
  /\ At(i, "closeTask")
  /\ LET r == [Called(reqs[i], "closeTask") EXCEPT !.closed = "failed"]
     IN reqs' = [reqs EXCEPT ![i] = OnCloseError(r)]
  /\ UNCHANGED <<boots, variant, remote, log, clock, avLists>>

\* the second await closeTask(taskId) of GET /complete in index-av.js 252
CloseTask2Ok(i) ==
  /\ At(i, "closeTask2")
  /\ remote' = closeTask(remote, reqs[i].taskId)
  /\ reqs' = [reqs EXCEPT ![i] = Respond(Called(@, "closeTask"), 200, "COMPLETED")]
  /\ UNCHANGED <<boots, variant, log, clock, avLists>>

CloseTask2Fails(i) ==
  /\ At(i, "closeTask2")
  /\ LET r == [Called(reqs[i], "closeTask") EXCEPT !.closed = "failed"]
     IN reqs' = [reqs EXCEPT ![i] = OnCloseError(r)]
  /\ UNCHANGED <<boots, variant, remote, log, clock, avLists>>

\* after the log write: GET /complete answers, POST /scan goes on to the list
AfterSetCompleted(r) ==
  IF r.route = "GET /complete" THEN Respond(r, 200, "COMPLETED")
  ELSE IF r.labelName = NoLabel THEN Respond(r, 200, "CLOSED_NO_LABEL")
  ELSE [r EXCEPT !.pc = "listOpen"]

\* await setCompleted(taskId) (index.js 592, 759);
\* setCompletedInLog(taskId, new Date().toISOString()) (index-av.js 415-416)
SetCompletedOk(i) ==
  /\ At(i, "setCompleted")
  /\ log' = setCompleted(log, reqs[i].taskId, clock)
  /\ clock' = clock + 1
  /\ LET r == [Called(reqs[i], "setCompleted") EXCEPT !.wrote = clock]
     IN reqs' = [reqs EXCEPT ![i] = AfterSetCompleted(r)]
  /\ UNCHANGED <<boots, variant, remote, avLists>>

\* the insert is rejected by the database: the catch block answers 500
SetCompletedFails(i) ==
  /\ At(i, "setCompleted")
  /\ variant = "pg"
  /\ reqs' = [reqs EXCEPT ![i] = Respond(Called(@, "setCompleted"), 500, "ERROR")]
  /\ UNCHANGED <<boots, variant, remote, log, clock, avLists>>

\* remaining = sort(await listOpenTasksByLabel(labelName)) (index.js 761-770)
ListOpenOk(i) ==
  /\ At(i, "listOpen")
  /\ LET answer == listOpenTasksByLabel(remote, reqs[i].labelName)
     IN reqs' = [reqs EXCEPT ![i] =
          Respond([Called(@, "listOpenTasksByLabel") EXCEPT
                     !.remoteThen = remote, !.listOk = TRUE,
                     !.remaining = sortTasksByPriorityAndName(answer)],
                  200, "CLOSED_WITH_LIST")]
  /\ UNCHANGED <<boots, variant, remote, log, clock, avLists>>

\* the query fails: remaining stays [] and the success page is sent
ListOpenFails(i) ==
  /\ At(i, "listOpen")
  /\ LET r == [Called(reqs[i], "listOpenTasksByLabel") EXCEPT !.remoteThen = remote]
     IN reqs' = [reqs EXCEPT ![i] = Respond(r, 200, "CLOSED_WITH_LIST")]
  /\ UNCHANGED <<boots, variant, remote, log, clock, avLists>>

IsOpen(t) == ~t.closed

\* the test of the first label only
HasLabelFirst(t, label) == Len(t.labels) > 0 /\ t.labels[1] = label

\* Array.isArray(t.labels) && t.labels.includes(label)
HasLabel(t, label) == InSeq(label, t.labels)

\* the url field of a task of the remote service
TaskUrl(id) == <<"https://app.todoist.com/app/task", id>>

Item(t) == [content |-> t.content, priority |-> t.priority, url |-> TaskUrl(t.id)]

\* a generator that hands out the same id again
randomUUIDRepeated(lists) == 1

\* crypto.randomUUID(): an id that no snapshot has
randomUUID(lists) == Cardinality(DOMAIN lists) + 1

\* await todoistGet(/tasks?project_id=...) of av/avRoutes.js answers with the
\* active tasks of the project; the handler goes on to its next await or to
\* its answer (part_001 28-48 and 52-71)
TodoistGetOk(i) ==
  /\ At(i, "todoistGet")
  /\ LET r == [Called(reqs[i], "todoistGet") EXCEPT !.remoteThen = remote]
         tasks == SelectSeq(remote, IsOpen)
         sorted == sortTasksByPriorityAndName(SelectSeq(tasks, LAMBDA t : HasLabel(t, r.label)))
         id == randomUUID(avLists)
         snapshot == [id |-> id, createdAt |-> clock, label |-> r.label,
                      items |-> [k \in 1..Len(sorted) |-> Item(sorted[k])]]
     IN IF r.route = "POST /api/av/create"
        THEN /\ avLists' = avListsSet(avLists, id, snapshot)
             /\ clock' = clock + 1
             /\ reqs' = [reqs EXCEPT ![i] =
                  [r EXCEPT !.id = id, !.snapshot = snapshot, !.count = Len(sorted),
                            !.pc = "toDataURL"]]
        ELSE /\ reqs' = [reqs EXCEPT ![i] = Respond(r, 200, "LABELS")]
             /\ UNCHANGED <<avLists, clock>>
  /\ UNCHANGED <<boots, variant, remote, log>>

\* await QRCode.toDataURL(url), then res.json({ id, url, qrDataUrl, count })
\* (part_001 73-86)
ToDataURLOk(i) ==
  /\ At(i, "toDataURL")
  /\ reqs' = [reqs EXCEPT ![i] = Respond(Called(@, "toDataURL"), 200, "CREATED")]
  /\ UNCHANGED <<boots, variant, remote, log, clock, avLists>>

\* the promise is rejected (the url does not fit a QR code): catch, 500
ToDataURLFails(i) ==
  /\ At(i, "toDataURL")
  /\ reqs' = [reqs EXCEPT ![i] =
       Respond([Called(@, "toDataURL") EXCEPT !.failed = "toDataURL"], 500, "ERROR")]
  /\ UNCHANGED <<boots, variant, remote, log, clock, avLists>>

\* a user of the remote service raises the priority of pallet t3
RemoteReprioritise ==
  /\ remote[3].priority = 1
  /\ remote' = [remote EXCEPT ![3].priority = 4]
  /\ UNCHANGED <<boots, variant, reqs, log, clock, avLists>>

NewTask ==
  [id |-> "t5", content |-> "A", priority |-> 3, labels |-> <<"eilig", "K100">>, closed |-> FALSE]

\* a user of the remote service creates another pallet of the commission
RemoteCreate ==
  /\ Len(remote) = Len(InitialTasks)
  /\ remote' = Append(remote, NewTask)
  /\ UNCHANGED <<boots, variant, reqs, log, clock, avLists>>

TodoistGetFails(i) ==
  /\ At(i, "todoistGet")
  /\ reqs' = [reqs EXCEPT ![i] =
       Respond([Called(@, "todoistGet") EXCEPT !.failed = "todoistGet"], 500, "ERROR")]
  /\ UNCHANGED <<boots, variant, remote, log, clock, avLists>>

Init ==
  /\ variant \in {"pg", "file"}
  /\ reqs = <<>>
  /\ remote = InitialTasks
  /\ log = <<>>
  /\ clock = 1
  /\ avLists = <<>>
  /\ boots = 1
  /\ sortIn = <<>> /\ sortOut = <<>> /\ sortDone = FALSE
  /\ raw = <<>> /\ normOut = <<>> /\ normDone = FALSE

Step(i) ==
  \/ GetCompletedAtOk(i) \/ GetCompletedAtFails(i)
  \/ GetTaskOk(i) \/ GetTaskFails(i)
  \/ CloseTaskOk(i) \/ CloseTaskFails(i)
  \/ CloseTask2Ok(i) \/ CloseTask2Fails(i)
  \/ SetCompletedOk(i) \/ SetCompletedFails(i)
  \/ ListOpenOk(i) \/ ListOpenFails(i)

Next ==
  \/ Receive(ScanInputs) /\ UNCHANGED <<sortVars, normVars>>
  \/ \E i \in 1..MaxReqs : Step(i) /\ UNCHANGED <<sortVars, normVars>>

Spec == Init /\ [][Next]_vars

\* the server under requests to the load-list router and the pages
NextAv ==
  \/ Receive(AvInputs) /\ UNCHANGED <<sortVars, normVars>>
  \/ \E i \in 1..MaxReqs :
       /\ \/ TodoistGetOk(i) \/ TodoistGetFails(i)
          \/ ToDataURLOk(i) \/ ToDataURLFails(i)
          \/ GetTaskOk(i) \/ GetTaskFails(i)
          \/ CloseTaskOk(i) \/ CloseTaskFails(i)
          \/ SetCompletedOk(i) \/ SetCompletedFails(i)
          \/ ListOpenOk(i) \/ ListOpenFails(i)
       /\ UNCHANGED <<sortVars, normVars>>

SpecAv == Init /\ [][NextAv]_vars

\* the load-list router while the tasks of the project change: snapshots
\* are created and fetched, a pallet is scanned, and users of the remote
\* service re-prioritise and create tasks
SnapInputs ==
  {NewRequest("POST /api/av/create", "", NoSig, "", GoodAuth, label, 0) :
     label \in {"", "K100"}}
  \cup
  {NewRequest("GET /api/av/list", "", NoSig, "", GoodAuth, "", id) : id \in 1..MaxReqs}
  \cup
  {NewRequest("POST /scan", "t1", signTaskId("t1"), "yes", NoAuth, "", 0)}

InitSnap == Init /\ variant = "pg"

NextSnap ==
  \/ Receive(SnapInputs) /\ UNCHANGED <<sortVars, normVars>>
  \/ \E i \in 1..MaxReqs :
       /\ \/ TodoistGetOk(i) \/ TodoistGetFails(i)
          \/ ToDataURLOk(i) \/ ToDataURLFails(i)
          \/ GetTaskOk(i) \/ GetTaskFails(i)
          \/ CloseTaskOk(i) \/ CloseTaskFails(i)
          \/ SetCompletedOk(i) \/ SetCompletedFails(i)
          \/ ListOpenOk(i) \/ ListOpenFails(i)
       /\ UNCHANGED <<sortVars, normVars>>
  \/ RemoteReprioritise /\ UNCHANGED <<sortVars, normVars>>
  \/ RemoteCreate /\ UNCHANGED <<sortVars, normVars>>

SpecSnap == InitSnap /\ [][NextSnap]_vars

----------------------------------------------------------------------------
(* The server with process restarts and storage failures                   *)

\* writeOutLog of index-av.js: writeFileSync throws, the error is logged and
\* swallowed, setCompletedInLog returns and the handler goes on (68-74, 77-81)
SetCompletedWriteFails(i) ==
  /\ At(i, "setCompleted")
  /\ variant = "file"
  /\ clock' = clock + 1
  /\ LET r == [Called(reqs[i], "setCompleted") EXCEPT !.wrote = clock]
     IN reqs' = [reqs EXCEPT ![i] = AfterSetCompleted(r)]
  /\ UNCHANGED <<boots, variant, remote, log, avLists>>

\* readOutLog of index-av.js in setCompletedInLog: the file cannot be read or
\* parsed, the error is swallowed and {} returned; the new record is set in
\* it and the file is written with this record alone (57-66, 77-81)
SetCompletedReadFails(i) ==
  /\ At(i, "setCompleted")
  /\ variant = "file"
  /\ log' = setCompleted(<<>>, reqs[i].taskId, clock)
  /\ clock' = clock + 1
  /\ LET r == [Called(reqs[i], "setCompleted") EXCEPT !.wrote = clock, !.readFailed = TRUE]
     IN reqs' = [reqs EXCEPT ![i] = AfterSetCompleted(r)]
  /\ UNCHANGED <<boots, variant, remote, avLists>>

\* readOutLog of index-av.js in getCompletedFromLog: the file cannot be read
\* or parsed when a GET /scan or GET /complete arrives, and the handler
\* goes on with {} (57-66, 83-86)
ReceiveLogUnreadable(inputs) ==
  /\ Len(reqs) < MaxReqs
  /\ variant = "file"
  /\ \E r \in inputs :
       /\ r.route \in {"GET /scan", "GET /complete"}
       /\ ~SigRejected(r.taskId, r.sig)
       /\ reqs' = Append(reqs, Dispatch([r EXCEPT !.before = Answered,
                                                  !.found = getCompletedAt(log, r.taskId),
                                                  !.boot = boots,
                                                  !.readFailed = TRUE],
                                        variant, <<>>, avLists))
  /\ UNCHANGED <<boots, variant, remote, log, clock, avLists>>

\* what a stop of the process leaves of a request: an answered request stays
\* answered, a handler that was waiting at an await is gone
AfterStop(r) == IF r.pc = "done" THEN r ELSE [r EXCEPT !.pc = "lost"]

\* the process stops at any point and is started again; the table, the log
\* file and the remote service keep their state
Restart ==
  /\ boots < MaxBoots
  /\ boots' = boots + 1
  /\ reqs' = [i \in 1..Len(reqs) |-> AfterStop(reqs[i])]
  /\ UNCHANGED <<variant, remote, log, clock, avLists>>

\* the requests of the QR code of pallet t1, with the signature of the code
CrashInputs ==
  {NewRequest("POST /scan", "t1", signTaskId("t1"), "yes", NoAuth, "", 0)}
  \cup
  {NewRequest(route, "t1", signTaskId("t1"), NoAnswer, NoAuth, "", 0) :
     route \in {"GET /scan", "GET /complete"}}

NextCrash ==
  \/ Receive(CrashInputs) /\ UNCHANGED <<sortVars, normVars>>
  \/ \E i \in 1..MaxReqs : Step(i) /\ UNCHANGED <<sortVars, normVars>>
  \/ ReceiveLogUnreadable(CrashInputs) /\ UNCHANGED <<sortVars, normVars>>
  \/ \E i \in 1..MaxReqs : SetCompletedWriteFails(i) /\ UNCHANGED <<sortVars, normVars>>
  \/ \E i \in 1..MaxReqs : SetCompletedReadFails(i) /\ UNCHANGED <<sortVars, normVars>>
  \/ Restart /\ UNCHANGED <<sortVars, normVars>>

SpecCrash == Init /\ [][NextCrash]_vars

----------------------------------------------------------------------------
(* The list sorter on its own                                              *)

Priorities == 1..4

\* the list of tasks with the given keys; the id of a task is its position
TaskList(keys) ==
  [k \in 1..Len(keys) |-> [id |-> k, priority |-> keys[k][1], content |-> keys[k][2]]]

InitSort ==
  /\ variant = "pg" /\ reqs = <<>> /\ remote = InitialTasks /\ log = <<>>
  /\ clock = 1 /\ avLists = <<>> /\ boots = 1
  /\ \E n \in 0..MaxSortLen :
       \E keys \in [1..n -> Priorities \X Contents] : sortIn = TaskList(keys)
  /\ sortOut = <<>> /\ sortDone = FALSE
  /\ raw = <<>> /\ normOut = <<>> /\ normDone = FALSE

Sort ==
  /\ ~sortDone
  /\ sortOut' = sortTasksByPriorityAndName(sortIn)
  /\ sortDone' = TRUE
  /\ UNCHANGED <<sortIn, serverVars, normVars>>

NextSort == Sort

SpecSort == InitSort /\ [][NextSort]_vars

----------------------------------------------------------------------------
(* normalizeProject on its own                                             *)

RawAlphabet == {"b", "k", "K", "2", "-", " "}

Befr0124 == <<"b", "e", "f", "r", "0", "1", "2", "4">>
Bl22k == <<"b", "l", "2", "2", "k">>

\* the two documented inputs
Documented == {Befr0124, Bl22k}

InitNorm ==
  /\ variant = "pg" /\ reqs = <<>> /\ remote = InitialTasks /\ log = <<>>
  /\ clock = 1 /\ avLists = <<>> /\ boots = 1
  /\ sortIn = <<>> /\ sortOut = <<>> /\ sortDone = FALSE
  /\ \/ \E n \in 0..MaxRawLen : raw \in [1..n -> RawAlphabet]
     \/ raw \in Documented
  /\ normOut = <<>> /\ normDone = FALSE

Normalize ==
  /\ ~normDone
  /\ normOut' = normalizeProject(raw)
  /\ normDone' = TRUE
  /\ UNCHANGED <<raw, serverVars, sortVars>>

NextNorm == Normalize

SpecNorm == InitNorm /\ [][NextNorm]_vars

----------------------------------------------------------------------------
(* normalizeDrawing on its own                                             *)

DrawAlphabet == {"b", "L", "k", "7", "1", " "}

TuerVorneRechtsBl7 ==
  <<"t", "ü", "r", " ", "v", "o", "r", "n", "e", " ",
    "r", "e", "c", "h", "t", "s", " ", "b", "l", "7">>
Bl171 == <<"b", "l", "1", "7", "1">>

\* the documented input and a code of three digits
DrawingExamples == {TuerVorneRechtsBl7, Bl171}

InitDraw ==
  /\ variant = "pg" /\ reqs = <<>> /\ remote = InitialTasks /\ log = <<>>
  /\ clock = 1 /\ avLists = <<>> /\ boots = 1
  /\ sortIn = <<>> /\ sortOut = <<>> /\ sortDone = FALSE
  /\ \/ \E n \in 0..MaxDrawLen : raw \in [1..n -> DrawAlphabet]
     \/ raw \in DrawingExamples
  /\ normOut = <<>> /\ normDone = FALSE

NormalizeDrawing ==
  /\ ~normDone
  /\ normOut' = normalizeDrawing(raw)
  /\ normDone' = TRUE
  /\ UNCHANGED <<raw, serverVars, sortVars>>

NextDraw == NormalizeDrawing

SpecDraw == InitDraw /\ [][NextDraw]_vars

----------------------------------------------------------------------------
(* Properties of the completion workflow                                   *)

Req(i) == reqs[i]
ReqIds == 1..Len(reqs)

IsDone(r) == r.pc = "done"
ValidSig(r) == r.sig = signTaskId(r.taskId)
IsCompletion(r) == r.route = "POST /scan" /\ r.answer = "yes" /\ ValidSig(r)
Issued(r, name) == InSeq(name, r.calls)

\* C1: when the completion workflow (POST /scan, answer yes, valid signature)
\* is run for a task after an earlier run for the same task was answered with
\* the close succeeded, the later run ends in ALREADY_DONE and the log still
\* holds the timestamp the earlier run stored.
C1_IdempotentCompletion ==
  \A i, j \in ReqIds :
    ( /\ IsCompletion(Req(i)) /\ IsCompletion(Req(j))
      /\ Req(i).taskId = Req(j).taskId
      /\ i \in Req(j).before
      /\ Req(i).outcome \in {"CLOSED_NO_LABEL", "CLOSED_WITH_LIST"}
      /\ IsDone(Req(j)) /\ Req(j).closed # "failed" )
    => /\ Req(j).outcome = "ALREADY_DONE"
       /\ getCompletedAt(log, Req(j).taskId) = Req(i).wrote

\* C2: a request to GET /scan, POST /scan or GET /complete whose signature is
\* missing or differs from sign(taskId) is answered 403 (REJECTED) on arrival
\* without any remote call or log operation; the step that receives it
\* leaves the log and the remote tasks unchanged and nothing happens for
\* the request afterwards.
C2_SignatureRejection ==
  [][\A i \in 1..Len(reqs') :
       (reqs'[i].route \in ScanRoutes /\ ~ValidSig(reqs'[i]))
       => IF i > Len(reqs)
          THEN /\ reqs'[i].pc = "done"
               /\ reqs'[i].status = 403
               /\ reqs'[i].outcome = "REJECTED"
               /\ reqs'[i].calls = <<>>
               /\ log' = log /\ remote' = remote
          ELSE reqs'[i] = reqs[i]]_vars

\* C2 witness: a task was completed and logged, and a later POST /scan for
\* it without a signature has been rejected.
C2_Witness ==
  \E i, j \in ReqIds :
    /\ Req(i).wrote # Absent
    /\ i \in Req(j).before
    /\ Req(j).route = "POST /scan" /\ Req(j).answer = "yes"
    /\ Req(j).taskId = Req(i).taskId
    /\ Req(j).sig = NoSig
    /\ Req(j).status = 403

\* C3: once the log holds a record for a task, no step changes its
\* completed_at (a later set for the task is a no-op).
C3_UpsertPreserve ==
  [][\A t \in DOMAIN log : t \in DOMAIN log' /\ log'[t] = log[t]]_vars

\* C4: a completion workflow that starts when the log already holds a
\* record for the task issues no getTask and no closeTask and ends in
\* ALREADY_DONE showing the stored timestamp.
C4_AlreadyDoneNoRemote ==
  \A i \in ReqIds :
    (IsCompletion(Req(i)) /\ Req(i).found # Absent)
    => /\ ~Issued(Req(i), "getTask")
       /\ ~Issued(Req(i), "closeTask")
       /\ IsDone(Req(i)) => (Req(i).outcome = "ALREADY_DONE" /\ Req(i).shown = Req(i).found)

\* C5 as claimed: a request to POST /scan or GET /complete whose close of
\* the task failed is answered 502 (CLOSE_FAILED) and has written nothing
\* to the log.
C5_CloseFailed502 ==
  \A i \in ReqIds :
    (Req(i).route \in {"POST /scan", "GET /complete"} /\ Req(i).closed = "failed")
    => /\ IsDone(Req(i))
       /\ Req(i).status = 502 /\ Req(i).outcome = "CLOSE_FAILED"
       /\ Req(i).wrote = Absent /\ ~Issued(Req(i), "setCompleted")

\* C5 amended: a request whose close of the task failed is answered at
\* once, POST /scan with 502 (CLOSE_FAILED) and GET /complete with the 500
\* of its catch block, and has written nothing to the log.
C5_CloseFailedNoLog ==
  \A i \in ReqIds :
    (Req(i).route \in {"POST /scan", "GET /complete"} /\ Req(i).closed = "failed")
    => /\ IsDone(Req(i))
       /\ IF Req(i).route = "POST /scan"
          THEN Req(i).status = 502 /\ Req(i).outcome = "CLOSE_FAILED"
          ELSE Req(i).status = 500 /\ Req(i).outcome = "ERROR"
       /\ Req(i).wrote = Absent /\ ~Issued(Req(i), "setCompleted")

\* C5 witness: the close failed in a POST /scan and in a GET /complete
C5_Witness ==
  \E i, j \in ReqIds :
    /\ Req(i).route = "POST /scan" /\ Req(i).closed = "failed" /\ Req(i).status = 502
    /\ Req(j).route = "GET /complete" /\ Req(j).closed = "failed" /\ Req(j).status = 500
    /\ Req(i).taskId = Req(j).taskId
    /\ Req(i).taskId \notin DOMAIN log

CredentialsValid(auth) ==
  auth.scheme = "Basic" /\ auth.user = ADMIN_USER /\ auth.pass = ADMIN_PASS

IsPublic(route) == PathHead(route) \in {"health", "scan", "complete"}

\* C6: a request to a route other than health, scan and complete that
\* carries no valid Basic credentials is answered 401 on arrival, has
\* issued no remote call, and was not served by the route handler (no
\* snapshot created, no list, labels or page returned).
C6_BasicAuthGuardsAll ==
  \A i \in ReqIds :
    (~IsPublic(Req(i).route) /\ ~CredentialsValid(Req(i).auth))
    => /\ IsDone(Req(i)) /\ Req(i).status = 401
       /\ Req(i).calls = <<>>
       /\ Req(i).outcome \notin {"CREATED", "LIST", "LABELS", "PAGE"}

SameTasks(s, t) ==
  /\ Len(s) = Len(t)
  /\ \A k \in 1..Len(t) : \E m \in 1..Len(s) : s[m] = t[k]
  /\ \A k, m \in 1..Len(s) : s[k].id = s[m].id => k = m

\* the list holds, once each, exactly the tasks that are open and carry the label
ExactlyOpenUnder(list, tasks, label) ==
  /\ {list[k] : k \in 1..Len(list)} =
       {tasks[k] : k \in {m \in 1..Len(tasks) : ~tasks[m].closed /\ InSeq(label, tasks[m].labels)}}
  /\ \A k, m \in 1..Len(list) : list[k] = list[m] => k = m

PriorityDescending(s) == \A k \in 1..(Len(s) - 1) : s[k].priority >= s[k + 1].priority

RecoveredLabel(r) ==
  r.route = "POST /scan" /\ IsDone(r) /\ r.closed = "ok" /\ r.labelName # NoLabel

\* C7 as claimed: a POST /scan whose close succeeded and whose label was
\* recovered ends in CLOSED_WITH_LIST and returns exactly the tasks that
\* are open under the label when the list is queried, by descending
\* priority.
C7_RemainingListAlways ==
  \A i \in ReqIds :
    RecoveredLabel(Req(i))
    => /\ Req(i).outcome = "CLOSED_WITH_LIST"
       /\ ExactlyOpenUnder(Req(i).remaining, Req(i).remoteThen, Req(i).labelName)
       /\ PriorityDescending(Req(i).remaining)

\* C7 amended: such a request ends in CLOSED_WITH_LIST unless the log
\* write was rejected (then 500); when the list query was answered it
\* returns exactly the open tasks of the label by descending priority, and
\* when the query failed it returns the empty list.
C7_RemainingList ==
  \A i \in ReqIds :
    RecoveredLabel(Req(i))
    => /\ \/ Req(i).outcome = "CLOSED_WITH_LIST" /\ Req(i).status = 200
          \/ Req(i).outcome = "ERROR" /\ Req(i).status = 500 /\ Req(i).wrote = Absent
       /\ Req(i).outcome = "CLOSED_WITH_LIST"
          => IF Req(i).listOk
             THEN /\ ExactlyOpenUnder(Req(i).remaining, Req(i).remoteThen, Req(i).labelName)
                  /\ PriorityDescending(Req(i).remaining)
             ELSE Req(i).remaining = <<>>

\* C7 witness: pallet t1 of K100 was closed and the two pallets left under
\* K100, of priorities 3 and 1, are returned in that order.
C7_Witness ==
  \E i \in ReqIds :
    /\ RecoveredLabel(Req(i)) /\ Req(i).outcome = "CLOSED_WITH_LIST"
    /\ Req(i).taskId = "t1" /\ Req(i).labelName = "K100"
    /\ Len(Req(i).remaining) = 2
    /\ Req(i).remaining[1].priority = 3
    /\ Req(i).remaining[2].priority = 1

\* C16: whenever a GET /complete with a valid signature has returned its
\* success page, the remote task is closed and the completion log holds a
\* record for the task.
C16_CompleteClosesAndLogs ==
  \A i \in ReqIds :
    ( /\ Req(i).route = "GET /complete" /\ ValidSig(Req(i))
      /\ IsDone(Req(i)) /\ Req(i).outcome = "COMPLETED" )
    => /\ remote[TaskIndex(remote, Req(i).taskId)].closed
       /\ getCompletedAt(log, Req(i).taskId) # Absent

\* C17: a request to GET /scan or POST /scan that carries the signature
\* of the QR code of its task is never turned away (no 401, no 403),
\* however often the code is used and whatever the log and the remote
\* tasks hold when it arrives.
C17_QrSignatureAccepted ==
  \A i \in ReqIds :
    ( /\ Req(i).route \in {"GET /scan", "POST /scan"}
      /\ Req(i).sig = QrUrl(Req(i).taskId).sig )
    => /\ Req(i).status \notin {401, 403}
       /\ Req(i).outcome \notin {"REJECTED", "UNAUTHORIZED", "NO_ROUTE"}
       /\ Req(i).pc # "new"

\* C17 witness: the code of t1 was used for a completion, which closed the
\* task and wrote the log, and was used again afterwards and accepted.
C17_Witness ==
  \E i, j \in ReqIds :
    /\ IsCompletion(Req(i)) /\ Req(i).taskId = "t1" /\ Req(i).wrote # Absent
    /\ i \in Req(j).before
    /\ Req(j).route = "GET /scan" /\ Req(j).taskId = "t1"
    /\ Req(j).sig = Req(i).sig /\ Req(j).sig = QrUrl("t1").sig
    /\ Req(j).status = 200 /\ Req(j).outcome = "ALREADY_DONE"
    /\ remote[1].closed

\* the request is answered by the step
AnsweredNow(i) == reqs'[i].pc = "done" /\ (i > Len(reqs) \/ reqs[i].pc # "done")

IsScanRead(r) == r.route = "GET /scan" /\ ValidSig(r)

\* the request has neither closed the task nor written the log
OnlyRead(r) ==
  /\ ~Issued(r, "getTask") /\ ~Issued(r, "closeTask") /\ ~Issued(r, "setCompleted")
  /\ r.closed = "no" /\ r.wrote = Absent

\* C18 as claimed: a GET /scan with a valid signature never closes the task
\* or writes the log, and the step that answers it leaves the log and the
\* remote tasks unchanged and returns the "already done" page if the log
\* holds a record for the task and the prompt if it holds none.
C18_ScanReadsOnlyTwoPages ==
  [][\A i \in 1..Len(reqs') :
       IsScanRead(reqs'[i])
       => /\ OnlyRead(reqs'[i])
          /\ AnsweredNow(i)
             => /\ log' = log /\ remote' = remote
                /\ IF getCompletedAt(log, reqs'[i].taskId) # Absent
                   THEN reqs'[i].outcome = "ALREADY_DONE"
                   ELSE reqs'[i].outcome = "PROMPT"]_vars

\* C18 amended: such a request never closes the task or writes the log and
\* the step that answers it changes neither; when the read of the log
\* answers, it returns the "already done" page with the stored timestamp
\* if the log holds a record and the prompt if not; when the query of the
\* table fails it returns the 500 page; when the log file cannot be read
\* it returns the prompt.
C18_ScanReadsOnly ==
  [][\A i \in 1..Len(reqs') :
       IsScanRead(reqs'[i])
       => /\ OnlyRead(reqs'[i])
          /\ AnsweredNow(i)
             => /\ log' = log /\ remote' = remote
                /\ IF reqs'[i].status = 500
                   THEN variant = "pg" /\ reqs'[i].outcome = "ERROR"
                   ELSE IF reqs'[i].readFailed
                   THEN variant = "file" /\ reqs'[i].outcome = "PROMPT"
                   ELSE IF getCompletedAt(log, reqs'[i].taskId) # Absent
                   THEN /\ reqs'[i].outcome = "ALREADY_DONE"
                        /\ reqs'[i].shown = log[reqs'[i].taskId]
                   ELSE reqs'[i].outcome = "PROMPT"
                /\ reqs'[i].status \in {200, 500}]_vars

\* C18 witness: t1 was completed and logged; a GET /scan for it afterwards
\* made one read of the log and showed the stored timestamp, and the log
\* still holds what the completion wrote.
C18_Witness ==
  \E i, j \in ReqIds :
    /\ IsCompletion(Req(i)) /\ Req(i).wrote # Absent
    /\ IsScanRead(Req(j)) /\ Req(j).taskId = Req(i).taskId
    /\ Req(j).calls = <<"getCompletedAt">>
    /\ ~Req(j).readFailed
    /\ Req(j).outcome = "ALREADY_DONE" /\ Req(j).shown = Req(i).wrote
    /\ getCompletedAt(log, Req(j).taskId) = Req(i).wrote

\* C19: a POST /scan with a valid signature and an answer other than yes
\* (no, or no answer at all) is answered on arrival with the "cancelled"
\* page (DECLINED) without any remote call or log operation; the step
\* leaves the remote tasks and the log unchanged, and nothing happens for
\* the request afterwards.
C19_DeclineNoEffect ==
  [][\A i \in 1..Len(reqs') :
       (reqs'[i].route = "POST /scan" /\ ValidSig(reqs'[i]) /\ reqs'[i].answer # "yes")
       => IF i > Len(reqs)
          THEN /\ reqs'[i].pc = "done"
               /\ reqs'[i].status = 200 /\ reqs'[i].outcome = "DECLINED"
               /\ reqs'[i].calls = <<>>
               /\ reqs'[i].closed = "no" /\ reqs'[i].wrote = Absent
               /\ log' = log /\ remote' = remote
          ELSE reqs'[i] = reqs[i]]_vars

\* C19 witness: the code of t1 was answered with no and with no answer at
\* all; both requests were declined, t1 is open and the log is empty.
C19_Witness ==
  \E i, j \in ReqIds :
    /\ Req(i).route = "POST /scan" /\ Req(j).route = "POST /scan"
    /\ Req(i).taskId = "t1" /\ Req(j).taskId = "t1"
    /\ ValidSig(Req(i)) /\ ValidSig(Req(j))
    /\ Req(i).answer = "no" /\ Req(j).answer = NoAnswer
    /\ Req(i).outcome = "DECLINED" /\ Req(j).outcome = "DECLINED"
    /\ ~remote[1].closed /\ log = <<>>

\* C20: every record of the log is of a task that is closed in the remote
\* service and for which a request closed it successfully and then wrote;
\* and a step changes the log only for a request that stood at its log
\* write after its own close had succeeded, and only in the record of its
\* task or by dropping records. This holds after a stop of the process at
\* any point and under every interleaving.
C20_LogOnlyAfterClose ==
  [][ /\ \A t \in DOMAIN log' :
           /\ remote'[TaskIndex(remote', t)].closed
           /\ \E i \in 1..Len(reqs') :
                /\ reqs'[i].taskId = t
                /\ reqs'[i].closed = "ok" /\ reqs'[i].wrote # Absent
      /\ log' # log
         => \E i \in 1..Len(reqs) :
              /\ reqs[i].pc = "setCompleted"
              /\ reqs[i].closed = "ok" /\ Issued(reqs[i], "closeTask")
              /\ reqs'[i].wrote = log'[reqs[i].taskId]
              /\ DOMAIN log' \subseteq DOMAIN log \cup {reqs[i].taskId} ]_vars

\* C20 witness: the process stopped between the close of t1 and the log
\* write: t1 is closed in the remote service and the log has no record.
C20_Witness ==
  \E i \in ReqIds :
    /\ Req(i).pc = "lost" /\ Req(i).taskId = "t1"
    /\ Req(i).closed = "ok" /\ Req(i).wrote = Absent
    /\ remote[1].closed
    /\ getCompletedAt(log, "t1") = Absent
    /\ boots = 2

IsLogRead(r) == r.route \in {"GET /scan", "GET /complete"} /\ Issued(r, "getCompletedAt")

\* the set of request i for its task returned with a timestamp and no other
\* request set a later one
LastSet(i) ==
  /\ Req(i).wrote # Absent
  /\ \A k \in ReqIds : Req(k).taskId = Req(i).taskId => Req(k).wrote <= Req(i).wrote

\* C12: when the set of a request has returned with timestamp ts, the
\* process is restarted, and a later request reads the log for the same
\* task, the read returns ts (the request shows ts as the completion time).
C12_LogRoundTrip ==
  \A i, j \in ReqIds :
    ( /\ LastSet(i)
      /\ Req(j).boot > Req(i).boot
      /\ Req(j).taskId = Req(i).taskId
      /\ IsLogRead(Req(j)) /\ IsDone(Req(j)) /\ Req(j).status # 500 )
    => Req(j).shown = Req(i).wrote

----------------------------------------------------------------------------
(* Properties of the load-list snapshots                                   *)

IsCreate(r) == r.route = "POST /api/av/create"
IsList(r) == r.route = "GET /api/av/list"
Stored(r) == IsCreate(r) /\ r.snapshot # NoList

\* C13: no step changes or removes a stored snapshot; two creates never
\* store under the same id; and once a create has returned id, every later
\* GET /api/av/list/{id} returns the snapshot that create stored (label,
\* createdAt and items), whatever happened to the remote tasks and whatever
\* other snapshots were created in between.
C13_SnapshotImmutable ==
  [][ /\ \A id \in DOMAIN avLists : id \in DOMAIN avLists' /\ avLists'[id] = avLists[id]
      /\ \A i, k \in 1..Len(reqs') :
           (Stored(reqs'[i]) /\ Stored(reqs'[k]) /\ i # k) => reqs'[i].id # reqs'[k].id
      /\ \A i, j \in 1..Len(reqs') :
           ( /\ IsCreate(reqs'[i]) /\ reqs'[i].outcome = "CREATED"
             /\ IsList(reqs'[j]) /\ reqs'[j].id = reqs'[i].id
             /\ i \in reqs'[j].before )
           => /\ reqs'[j].status = 200 /\ reqs'[j].outcome = "LIST"
              /\ reqs'[j].snapshot = reqs'[i].snapshot ]_vars

\* C13 witness: a snapshot of K100 was created; afterwards pallet t3 was
\* re-prioritised and pallet t5 created; the list fetched after that is
\* the snapshot as it was stored.
C13_Witness ==
  \E i, j \in ReqIds :
    /\ IsCreate(Req(i)) /\ Req(i).outcome = "CREATED"
    /\ IsList(Req(j)) /\ Req(j).id = Req(i).id /\ i \in Req(j).before
    /\ Len(Req(i).remoteThen) = 4 /\ Req(i).remoteThen[3].priority = 1
    /\ Len(Req(j).remoteThen) = 5 /\ Req(j).remoteThen[3].priority = 4
    /\ Req(j).outcome = "LIST"
    /\ Req(j).snapshot = Req(i).snapshot
    /\ Len(Req(j).snapshot.items) = 3

\* the positions of the active tasks that carry the label
Matching(tasks, label) ==
  {k \in 1..Len(tasks) : ~tasks[k].closed /\ \E m \in 1..Len(tasks[k].labels) : tasks[k].labels[m] = label}

C15_ListOrNotFound ==
  [][\A j \in 1..Len(reqs') :
       (j > Len(reqs) /\ IsList(reqs'[j]))
       => /\ avLists' = avLists
          /\ reqs'[j].pc = "done" /\ reqs'[j].calls = <<>>
          /\ IF \E i \in 1..Len(reqs) : Stored(reqs[i]) /\ reqs[i].id = reqs'[j].id
             THEN /\ reqs'[j].status = 200 /\ reqs'[j].outcome = "LIST"
                  /\ \E i \in 1..Len(reqs) :
                       /\ Stored(reqs[i]) /\ reqs[i].id = reqs'[j].id
                       /\ reqs'[j].snapshot = reqs[i].snapshot
             ELSE /\ reqs'[j].status = 404 /\ reqs'[j].outcome = "NOT_FOUND"
                  /\ reqs'[j].snapshot = NoList]_vars

\* C15 witness: a create has returned id 1 and a later request for id 2,
\* which no create has issued, was answered 404.
C15_Witness ==
  \E i, j \in ReqIds :
    /\ IsCreate(Req(i)) /\ Req(i).outcome = "CREATED" /\ Req(i).id = 1
    /\ IsList(Req(j)) /\ Req(j).id = 2 /\ i \in Req(j).before
    /\ Req(j).status = 404 /\ Req(j).outcome = "NOT_FOUND"
    /\ DOMAIN avLists = {1}

----------------------------------------------------------------------------
(* Properties of the list sorter                                           *)

\* C8: the sorter returns a permutation of its input in which every
\* adjacent pair is in order (higher priority first, or equal priority and
\* content not greater under the collation), and tasks with equal priority
\* and equal content keep their input order.
C8_SortCorrectStable ==
  sortDone =>
    /\ SameTasks(sortOut, sortIn)
    /\ \A k \in 1..(Len(sortOut) - 1) :
         \/ sortOut[k].priority > sortOut[k + 1].priority
         \/ /\ sortOut[k].priority = sortOut[k + 1].priority
            /\ CollRank(sortOut[k].content) <= CollRank(sortOut[k + 1].content)
    /\ \A k, m \in 1..Len(sortOut) :
         ( /\ k < m
           /\ sortOut[k].priority = sortOut[m].priority
           /\ sortOut[k].content = sortOut[m].content )
         => sortOut[k].id < sortOut[m].id

\* C8 witness: [B(4), A(4), Z(2)] has been sorted to A(4), B(4), Z(2)
C8_Witness ==
  /\ sortDone
  /\ sortIn = << [id |-> 1, priority |-> 4, content |-> "B"],
                 [id |-> 2, priority |-> 4, content |-> "A"],
                 [id |-> 3, priority |-> 2, content |-> "Z"] >>
  /\ sortOut = << [id |-> 2, priority |-> 4, content |-> "A"],
                  [id |-> 1, priority |-> 4, content |-> "B"],
                  [id |-> 3, priority |-> 2, content |-> "Z"] >>

----------------------------------------------------------------------------
(* Properties of normalizeProject                                          *)

BEFR0124 == <<"B", "E", "F", "R", "0", "1", "2", "4">>
BLXX0022K == <<"B", "L", "X", "X", "0", "0", "2", "2", "K">>

Zeros(n) == [k \in 1..n |-> "0"]

\* C9: normalizeProject("befr0124") = "BEFR0124", normalizeProject("bl22k")
\* = "BLXX0022K", and every input with one to three digits gets its digit
\* run padded the same way, with zeros in front, to four digits.
C9_ProjectPadding ==
  normDone =>
    /\ raw = Befr0124 => normOut = BEFR0124
    /\ raw = Bl22k => normOut = BLXX0022K
    /\ LET digits == SelectSeq(raw, IsDigit)
       IN Len(digits) \in 1..3
          => SubSeq(normOut, 5, 8) = Zeros(4 - Len(digits)) \o digits

FixedShape(code) ==
  /\ Len(code) \in {8, 9}
  /\ \A k \in 1..4 : code[k] \in UpperLetters
  /\ \A k \in 5..8 : code[k] \in DigitChars
  /\ Len(code) = 9 => code[9] = "K"

\* C10 as claimed: for every input, the empty one included, the result is
\* four upper-case letters, four digits and an optional final K.
C10_FixedShapeAlways == normDone => FixedShape(normOut)

\* C10 amended: for every non-empty input the result is four upper-case
\* letters, four digits and an optional final K; for the empty input it is
\* the empty string.
C10_FixedShape ==
  normDone => IF raw = <<>> THEN normOut = <<>> ELSE FixedShape(normOut)

\* C10 witness: an input of blanks and symbols only gives XXXX0000
C10_Witness ==
  /\ normDone
  /\ raw = <<" ", "-", " ">>
  /\ normOut = <<"X", "X", "X", "X", "0", "0", "0", "0">>

----------------------------------------------------------------------------
(* Properties of normalizeDrawing                                          *)

TuerVorneRechtsBL07 ==
  <<"T", "ü", "r", " ", "V", "o", "r", "n", "e", " ",
    "R", "e", "c", "h", "t", "s", ",", " ", "B", "L", "0", "7">>

AnyLetter == LowerLetters \cup UpperLetters
SmallOrCapitalB == {"b", "B"}
SmallOrCapitalL == {"l", "L"}

\* the string is a code: a letter of firsts, a letter of seconds, blanks,
\* and one or more digits up to its end
IsCodeOf(str, firsts, seconds) ==
  /\ Len(str) >= 3
  /\ str[1] \in firsts /\ str[2] \in seconds
  /\ \E q \in 3..Len(str) :
       /\ \A m \in 3..(q - 1) : IsSpace(str[m])
       /\ \A m \in q..Len(str) : IsDigit(str[m])

\* a code starts somewhere in the string
HasCodeOf(str, firsts, seconds) ==
  \E p \in 1..(Len(str) - 2) :
    /\ str[p] \in firsts /\ str[p + 1] \in seconds
    /\ \E q \in (p + 2)..Len(str) :
         /\ \A m \in (p + 2)..(q - 1) : IsSpace(str[m])
         /\ IsDigit(str[q])

\* the last two digits of the run, with a zero in front of a single digit
LastTwo(digits) ==
  IF Len(digits) = 1 THEN <<"0", digits[1]>>
  ELSE <<digits[Len(digits) - 1], digits[Len(digits)]>>

\* the upper-case prefix of the code and its two digits
CodeOut(code) ==
  <<UpperChar(code[1]), UpperChar(code[2])>> \o LastTwo(SelectSeq(code, IsDigit))

\* what normalizeDrawing returns when the codes are the tokens with a first
\* letter of firsts and a second letter of seconds
DrawingRules(firsts, seconds) ==
  normDone =>
    /\ raw = TuerVorneRechtsBl7 => normOut = TuerVorneRechtsBL07
    /\ IsCodeOf(trim(raw), firsts, seconds) => normOut = CodeOut(trim(raw))
    /\ ~HasCodeOf(raw, firsts, seconds) => normOut = toTitleCase(raw)
    /\ \A p \in 1..(Len(raw) - 1) :
         LET pre == SubSeq(raw, 1, p)
             post == SubSeq(raw, p + 1, Len(raw))
         IN /\ ( /\ IsCodeOf(post, firsts, seconds)
                 /\ ~HasCodeOf(pre, firsts, seconds)
                 /\ trim(pre) # <<>> )
               => normOut = toTitleCase(pre) \o <<",", " ">> \o CodeOut(post)
            /\ ( /\ IsCodeOf(pre, firsts, seconds)
                 /\ ~IsDigit(post[1])
                 /\ ~HasCodeOf(post, firsts, seconds)
                 /\ trim(post) # <<>> )
               => normOut = CodeOut(pre) \o <<",", " ">> \o toTitleCase(post)

\* C11 as claimed: every token of two letters and digits becomes the
\* upper-case letters and the last two digits of the run (zero-padded), the
\* text before or after it is title-cased, the parts are joined with ", "
\* in their order, and an input without such a token is title-cased as a
\* whole ("tür vorne rechts bl7" gives "Tür Vorne Rechts, BL07").
C11_DrawingAnyPrefix == DrawingRules(AnyLetter, AnyLetter)

\* C11 amended: the same with the tokens being those of the letters B and L
\* (either case) and digits; two other letters and digits are free text.
C11_DrawingBL == DrawingRules(SmallOrCapitalB, SmallOrCapitalL)

\* C11 witness: the documented input has been normalised
C11_Witness ==
  /\ normDone
  /\ raw = TuerVorneRechtsBl7
  /\ normOut = TuerVorneRechtsBL07

----------------------------------------------------------------------------
(* Concurrent completions of one task                                      *)

\* a request that completes its task: POST /scan with answer yes, or GET /complete
Completes(r) ==
  /\ ValidSig(r)
  /\ \/ r.route = "POST /scan" /\ r.answer = "yes"
     \/ r.route = "GET /complete"

\* neither request had been answered when the other arrived
Concurrent(i, j) == i # j /\ i \notin Req(j).before /\ j \notin Req(i).before

\* the smaller of two timestamps
Earlier(a, b) == IF a <= b THEN a ELSE b

\* C21: when two concurrent completion requests for the same task have both
\* closed the task remotely and both written the log, and both are answered
\* with no later write for the task, the log holds the timestamp of the
\* first of the two writes.
C21_DoubleScanFirstWriterWins ==
  \A i, j \in ReqIds :
    ( /\ Concurrent(i, j)
      /\ Completes(Req(i)) /\ Completes(Req(j))
      /\ Req(i).taskId = Req(j).taskId
      /\ IsDone(Req(i)) /\ IsDone(Req(j))
      /\ Req(i).closed = "ok" /\ Req(j).closed = "ok"
      /\ Req(i).wrote # Absent /\ Req(j).wrote # Absent
      /\ \A k \in ReqIds : Req(k).taskId = Req(i).taskId =>
           Req(k).wrote <= Req(i).wrote \/ Req(k).wrote <= Req(j).wrote )
    => getCompletedAt(log, Req(i).taskId) = Earlier(Req(i).wrote, Req(j).wrote)

----------------------------------------------------------------------------
(* The server under completions only                                       *)

\* the QR codes of pallets t1 and t4 are scanned and confirmed, or their
\* /complete link is opened, with the signature of the code
DoneInputs ==
  {NewRequest("POST /scan", t, signTaskId(t), "yes", NoAuth, "", 0) : t \in ScanTaskIds}
  \cup
  {NewRequest("GET /complete", t, signTaskId(t), NoAnswer, NoAuth, "", 0) : t \in ScanTaskIds}

NextDone ==
  \/ Receive(DoneInputs) /\ UNCHANGED <<sortVars, normVars>>
  \/ \E i \in 1..MaxReqs : Step(i) /\ UNCHANGED <<sortVars, normVars>>

SpecDone == Init /\ [][NextDone]_vars

----------------------------------------------------------------------------
(* Failures of the secondary remote calls                                  *)

\* the answers that report an error to the client
ErrorStatuses == {500, 502}

----------------------------------------------------------------------------
(* Durability of an acknowledged completion                                *)

Acknowledged(r) == r.outcome \in {"CLOSED_NO_LABEL", "CLOSED_WITH_LIST"}

\* C23: whenever a completion has been acknowledged (CLOSED_NO_LABEL or
\* CLOSED_WITH_LIST), the log holds a record of the task, in this run of the
\* process and after every restart, also when the write to the storage failed.
C23_AcknowledgedIsDurable ==
  \A i \in ReqIds :
    Acknowledged(Req(i)) => getCompletedAt(log, Req(i).taskId) # Absent

----------------------------------------------------------------------------
(* Concurrent completions of different tasks                               *)

\* a step leaves every record of the log in place, but the one of the task
\* whose completion the step writes
OthersKept ==
  \A t \in DOMAIN log :
    /\ t \in DOMAIN log'
    /\ log'[t] # log[t] =>
         \E i \in ReqIds : /\ reqs[i].pc = "setCompleted" /\ reqs[i].taskId = t
                           /\ reqs'[i].wrote = log'[t]

\* two concurrent completions of different tasks have both written
BothWrote(i, j) ==
  /\ Concurrent(i, j)
  /\ Completes(Req(i)) /\ Completes(Req(j))
  /\ Req(i).taskId # Req(j).taskId
  /\ LastSet(i) /\ LastSet(j)

----------------------------------------------------------------------------
(* Remote calls of one request                                             *)

\* how often the request issued the call
TimesIssued(r, name) == Cardinality({k \in 1..Len(r.calls) : r.calls[k] = name})

\* C25: one execution of POST /scan or GET /complete issues at most one
\* closeTask call.
C25_AtMostOneClose ==
  \A i \in ReqIds :
    Req(i).route \in {"POST /scan", "GET /complete"} =>
      TimesIssued(Req(i), "closeTask") <= 1

----------------------------------------------------------------------------
(* The label printer: POST /make-labels                                    *)

\* the id the remote service gives to a new task
NewTaskId(tasks) == "n" \o ToString(Len(tasks) + 1)

\* td.post('/tasks', { content, labels }) of createTodoistTask
\* (index.js 475-495; index-av.js 137-160)
createTodoistTask(tasks, content, labelNames) ==
  Append(tasks, [id |-> NewTaskId(tasks), content |-> content, priority |-> 1,
                 labels |-> labelNames, closed |-> FALSE])

\* await createTodoistTask(taskTitle, [project]) (index.js 1188-1190)
CreateTodoistTaskOk(i) ==
  /\ At(i, "createTodoistTask")
  /\ LET r == reqs[i]
         title == taskTitle(r.project, r.drawing, r.i, r.count)
     IN /\ remote' = createTodoistTask(remote, title, <<Str(r.project)>>)
        /\ reqs' = [reqs EXCEPT ![i] =
             [Called(r, "createTodoistTask") EXCEPT
                !.headersSent = TRUE,
                !.made = Append(@, [id |-> NewTaskId(remote), content |-> title]),
                !.pc = "toBuffer"]]
  /\ UNCHANGED <<boots, variant, log, clock, avLists>>

\* the remote service rejects the task: the catch block of the route runs
\* after the first bytes of the PDF went out
CreateTodoistTaskFails(i) ==
  /\ At(i, "createTodoistTask")
  /\ LET r == [Called(reqs[i], "createTodoistTask") EXCEPT
                 !.headersSent = TRUE, !.failed = "createTodoistTask"]
     IN reqs' = [reqs EXCEPT ![i] = OnLabelsError(r, variant)]
  /\ UNCHANGED <<boots, variant, remote, log, clock, avLists>>

\* await QRCode.toBuffer(completeUrl): the QR code is drawn, i++ and the
\* loop goes round (index.js 1194-1231)
ToBufferOk(i) ==
  /\ At(i, "toBuffer")
  /\ reqs' = [reqs EXCEPT ![i] = LoopHead([Called(@, "toBuffer") EXCEPT !.i = @ + 1])]
  /\ UNCHANGED <<boots, variant, remote, log, clock, avLists>>

ToBufferFails(i) ==
  /\ At(i, "toBuffer")
  /\ LET r == [Called(reqs[i], "toBuffer") EXCEPT !.failed = "toBuffer"]
     IN reqs' = [reqs EXCEPT ![i] = OnLabelsError(r, variant)]
  /\ UNCHANGED <<boots, variant, remote, log, clock, avLists>>

\* the rejected promise of a handler is an unhandled rejection: Node from
\* version 15 on ends the process, which is started again; older versions
\* print a warning and the response is never finished (the request stays
\* as it is)
UnhandledRejection ==
  /\ \E i \in 1..Len(reqs) : reqs[i].pc = "escaped"
  /\ boots < MaxBoots
  /\ boots' = boots + 1
  /\ reqs' = [i \in 1..Len(reqs) |-> AfterStop(reqs[i])]
  /\ UNCHANGED <<variant, remote, log, clock, avLists>>

NewLabelsRequest(project, drawing, rawCount, auth) ==
  [NewRequest("POST /make-labels", "", NoSig, NoAnswer, auth, "", 0) EXCEPT
     !.rawProject = project, !.rawDrawing = drawing, !.rawCount = rawCount]

Bl7 == <<"b", "l", "7">>

\* the count fields of the form: none, no number, a number followed by a
\* letter, zero, a negative number, one, two, and one more than fifty
CountFields ==
  {<<>>, <<"x">>, <<"2", "x">>, <<"0">>, <<"-", "1">>, <<"1">>, <<"2">>, <<"5", "1">>}

\* the requests of the label form, and two of the load-list form
LabelsInputs ==
  {NewLabelsRequest(Befr0124, Bl7, c, GoodAuth) : c \in CountFields}
  \cup
  {NewLabelsRequest(<<>>, Bl7, <<"2">>, GoodAuth),
   NewLabelsRequest(<<" ">>, Bl7, <<"2">>, GoodAuth),
   NewLabelsRequest(Befr0124, <<>>, <<"2">>, GoodAuth),
   NewLabelsRequest(Befr0124, Bl7, <<"2">>, NoAuth)}
  \cup
  {NewRequest("POST /api/av/create", "", NoSig, "", GoodAuth, label, 0) :
     label \in {"", "K100"}}

\* no handler is waiting at an await
Idle == \A i \in 1..Len(reqs) : reqs[i].pc \in {"done", "lost", "escaped"}

\* the forms are sent one after the other
NextLabels ==
  \/ Idle /\ Len(reqs) < MaxJobs /\ Receive(LabelsInputs) /\ UNCHANGED <<sortVars, normVars>>
  \/ \E i \in 1..MaxReqs :
       /\ \/ CreateTodoistTaskOk(i) \/ CreateTodoistTaskFails(i)
          \/ ToBufferOk(i) \/ ToBufferFails(i)
          \/ TodoistGetOk(i) \/ TodoistGetFails(i)
          \/ ToDataURLOk(i) \/ ToDataURLFails(i)
       /\ UNCHANGED <<sortVars, normVars>>
  \/ UnhandledRejection /\ UNCHANGED <<sortVars, normVars>>

SpecLabels == Init /\ [][NextLabels]_vars

----------------------------------------------------------------------------
(* Properties of the label printer                                         *)

IsLabels(r) == r.route = "POST /make-labels"

\* C26: every unexpected failure inside a route handler (a remote call that
\* fails, also in the middle of /make-labels after the PDF response has
\* started) is caught at the route boundary and answered with the generic 500
\* response; no failure escapes the catch block, and the process is not
\* stopped by it.
C26_FailuresAnswered500 ==
  /\ \A i \in ReqIds :
       Req(i).failed # "none" => IsDone(Req(i)) /\ Req(i).status = 500
  /\ boots = 1

\* the field is missing or blank
Missing(str) == trim(str) = <<>>

\* the field is the decimal notation of an integer
Numeric(str) ==
  LET t == trim(str)
      digits == IF t # <<>> /\ t[1] \in {"-", "+"} THEN Tail(t) ELSE t
  IN digits # <<>> /\ \A k \in 1..Len(digits) : IsDigit(digits[k])

\* C27: POST /make-labels with valid credentials and a missing project, a
\* missing drawing or a count that is not a number is answered 400, creates
\* no remote task and adds no page to a PDF; POST /api/av/create with a
\* missing label is answered 400 and stores no snapshot.
C27_InvalidFormsRejected ==
  \A i \in ReqIds :
    LET r == Req(i)
    IN /\ ( /\ IsLabels(r) /\ CredentialsValid(r.auth)
            /\ Missing(r.rawProject) \/ Missing(r.rawDrawing) \/ ~Numeric(r.rawCount) )
          => /\ IsDone(r) /\ r.status = 400
             /\ r.made = <<>> /\ r.pages = 0
       /\ ( IsCreate(r) /\ r.label = "" )
          => /\ IsDone(r) /\ r.status = 400
             /\ r.snapshot = NoList
             /\ \A id \in DOMAIN avLists : avLists[id].label # ""

----------------------------------------------------------------------------
(* The log of two pallets with a file that cannot always be read           *)

\* the QR codes of pallets t1 and t4 are scanned and confirmed, and the
\* code of t1 is scanned again
LogInputs ==
  {NewRequest("POST /scan", t, signTaskId(t), "yes", NoAuth, "", 0) : t \in ScanTaskIds}
  \cup
  {NewRequest("GET /scan", "t1", signTaskId("t1"), NoAnswer, NoAuth, "", 0)}

NextLog ==
  \/ Receive(LogInputs) /\ UNCHANGED <<sortVars, normVars>>
  \/ \E i \in 1..MaxReqs : Step(i) /\ UNCHANGED <<sortVars, normVars>>
  \/ ReceiveLogUnreadable(LogInputs) /\ UNCHANGED <<sortVars, normVars>>
  \/ \E i \in 1..MaxReqs : SetCompletedWriteFails(i) /\ UNCHANGED <<sortVars, normVars>>
  \/ \E i \in 1..MaxReqs : SetCompletedReadFails(i) /\ UNCHANGED <<sortVars, normVars>>

SpecLog == Init /\ [][NextLog]_vars

\* C28: completion records are never removed. Over every sequence of
\* completion requests, log reads and log writes, a read of the log file
\* that fails before a write included, the set of task ids with a record only
\* grows, and a request that reads the log for a task with a record is shown
\* a record.
C28_RecordsNeverRemoved ==
  /\ [][\A t \in DOMAIN log : t \in DOMAIN log']_vars
  /\ [](\A j \in ReqIds :
          ( /\ IsLogRead(Req(j)) /\ IsDone(Req(j)) /\ Req(j).status = 200
            /\ Req(j).found # Absent )
          => Req(j).shown # Absent)

\* C29: POST /make-labels bounds its work. A request that runs to completion
\* has an effective count between 1 and 50 and has created exactly that many
\* remote tasks, one per page of the PDF, titled "Palette i/count" for
\* i = 1..count in this order; never none, never more than 50.
C29_CountClamped ==
  \A i \in ReqIds :
    LET r == Req(i)
    IN ( IsLabels(r) /\ r.outcome = "PDF" ) =>
         /\ 1 <= r.count /\ r.count <= MAX_LABELS
         /\ Len(r.made) = r.count /\ r.pages = r.count
         /\ \A k \in 1..Len(r.made) :
              r.made[k].content = taskTitle(r.project, r.drawing, k, r.count)

----------------------------------------------------------------------------
(* Order of the remote calls of a completion                               *)

\* the place of the first call of that name among the calls of the request
FirstCall(r, name) == CHOOSE k \in 1..Len(r.calls) :
                        r.calls[k] = name /\ \A m \in 1..(k - 1) : r.calls[m] # name

\* C30: in a completion the label is fetched before the close, and the query
\* of the remaining tasks is issued only after the close succeeded; the
\* remote service lists open tasks only, so the remaining list of a request
\* that ends in CLOSED_WITH_LIST never contains the task the request closed.
C30_ClosedTaskNotListed ==
  \A i \in ReqIds :
    LET r == Req(i)
    IN /\ ( Issued(r, "getTask") /\ Issued(r, "closeTask") ) =>
            FirstCall(r, "getTask") < FirstCall(r, "closeTask")
       /\ Issued(r, "listOpenTasksByLabel") =>
            /\ r.closed = "ok"
            /\ FirstCall(r, "closeTask") < FirstCall(r, "listOpenTasksByLabel")
            /\ remote[TaskIndex(remote, r.taskId)].closed
       /\ r.outcome = "CLOSED_WITH_LIST" =>
            \A k \in 1..Len(r.remaining) : r.remaining[k].id # r.taskId

\* pallet t1 of commission K100 was closed and the request lists the two
\* other pallets of the commission, t1 not among them
C30_Witness ==
  \E i \in ReqIds :
    /\ Req(i).taskId = "t1" /\ Req(i).outcome = "CLOSED_WITH_LIST"
    /\ Req(i).listOk /\ Len(Req(i).remaining) = 2
    /\ {Req(i).remaining[k].id : k \in 1..2} = {"t2", "t3"}
    /\ Req(i).calls = <<"getTask", "closeTask", "setCompleted", "listOpenTasksByLabel">>

====
